---------------------------- MODULE Spec2Model ----------------------------
(***************************************************************************)
(* PNG -> BMP converter: src/utils/convert.ts (header builders, pixel      *)
(* transcoder, convertPngToBmp) driven by the React component of           *)
(* src/components/file-converter.tsx (onDrop, handleConversion).           *)
(*                                                                         *)
(* Strings the code inspects (file names, MIME types) are sequences of     *)
(* one-character strings, so that includes() and replace() are computed.   *)
(* An optional value is a sequence of length 0 (absent) or 1 (present).    *)
(* Byte buffers are sequences of 0..255; offset k of the code is index     *)
(* k+1 here.                                                               *)
(***************************************************************************)
EXTENDS Integers, Sequences, FiniteSets, TLC

\* Largest width/height the decoder hands back in the full model.
MaxDim == 2
\* Largest number of files held in the `files` list.
MaxFiles == 2

VARIABLES
    \* React state of FileConverterComponent (file-converter.tsx:11-14)
    files, convertedFiles, isConverting, progress,
    \* frame of the running handleConversion (file-converter.tsx:26-39)
    hcPc, runFiles, i, converted,
    \* frame of the running convertPngToBmp (convert.ts:100-154)
    file, imageUrl, image, ctx, imageData, fileHeader, infoHeader, pixelData,
    bmpData, ret,
    \* input and output of the header builders applied on their own
    hdrIn, hdrOut

compVars == <<files, convertedFiles, isConverting, progress>>
hcVars == <<hcPc, runFiles, i, converted>>
cvVars == <<file, imageUrl, image, ctx, imageData, fileHeader, infoHeader,
            pixelData, bmpData, ret>>
hdrVars == <<hdrIn, hdrOut>>
vars == <<compVars, hcVars, cvVars, hdrVars>>

---------------------------------------------------------------------------
(* Strings *)

\* String.prototype.indexOf: 1-based position of the first occurrence, 0 if none.
IndexOf(s, pat) ==
    LET hits == {k \in 1..(Len(s) - Len(pat) + 1) :
                    SubSeq(s, k, k + Len(pat) - 1) = pat}
    IN IF hits = {} THEN 0 ELSE CHOOSE k \in hits : \A m \in hits : k <= m

\* String.prototype.includes
Includes(s, pat) == IndexOf(s, pat) # 0

\* String.prototype.replace with a string pattern: the first occurrence only.
Replace(s, pat, rep) ==
    LET k == IndexOf(s, pat)
    IN IF k = 0 THEN s
       ELSE SubSeq(s, 1, k - 1) \o rep \o SubSeq(s, k + Len(pat), Len(s))

StrPng == <<"p", "n", "g">>
StrDotPng == <<".", "p", "n", "g">>
StrDotBmp == <<".", "b", "m", "p">>
MimePng == <<"i", "m", "a", "g", "e", "/", "p", "n", "g">>
MimeJpeg == <<"i", "m", "a", "g", "e", "/", "j", "p", "e", "g">>
MimeBmp == <<"i", "m", "a", "g", "e", "/", "b", "m", "p">>

---------------------------------------------------------------------------
(* DataView / typed arrays *)

\* new ArrayBuffer(n), new Uint8Array(n): n zero bytes.
Zeros(n) == [k \in 1..n |-> 0]

\* Byte k (0 = least significant) of v taken modulo 2^32.
U32Byte(v, k) ==
    CASE k = 0 -> v % 256
      [] k = 1 -> (v \div 256) % 256
      [] k = 2 -> (v \div 65536) % 256
      [] k = 3 -> (v \div 16777216) % 256

setUint8(buf, off, v) == [buf EXCEPT ![off + 1] = v % 256]

\* DataView.setUint16(off, v, true)
setUint16(buf, off, v) ==
    [k \in 1..Len(buf) |->
        IF k \in (off + 1)..(off + 2) THEN U32Byte(v, k - off - 1) ELSE buf[k]]

\* DataView.setUint32(off, v, true)
setUint32(buf, off, v) ==
    [k \in 1..Len(buf) |->
        IF k \in (off + 1)..(off + 4) THEN U32Byte(v, k - off - 1) ELSE buf[k]]

\* DataView.setInt32(off, v, true): the same bytes, two's complement.
setInt32(buf, off, v) == setUint32(buf, off, v)

\* TypedArray.prototype.set(src, off)
SetAt(buf, src, off) ==
    [k \in 1..Len(buf) |->
        IF k \in (off + 1)..(off + Len(src)) THEN src[k - off] ELSE buf[k]]

\* DataView.getUint32(off, true)
getUint32(buf, off) ==
    buf[off + 1] + 256 * buf[off + 2] + 65536 * buf[off + 3]
        + 16777216 * buf[off + 4]

---------------------------------------------------------------------------
(* convert.ts: the three builders *)

createBmpFileHeader_BadSize(imageSize) ==
    LET b0 == Zeros(14)
        b1 == setUint8(b0, 0, 66)
        b2 == setUint8(b1, 1, 77)
        b3 == setUint32(b2, 2, 14 + imageSize)
        b4 == setUint16(b3, 6, 0)
        b5 == setUint16(b4, 8, 0)
    IN setUint32(b5, 10, 54)

createBmpFileHeader(imageSize) ==
    LET b0 == Zeros(14)
        b1 == setUint8(b0, 0, 66)
        b2 == setUint8(b1, 1, 77)
        b3 == setUint32(b2, 2, 54 + imageSize)
        b4 == setUint16(b3, 6, 0)
        b5 == setUint16(b4, 8, 0)
    IN setUint32(b5, 10, 54)

createBmpInfoHeader(width, height) ==
    LET b0 == Zeros(40)
        b1 == setUint32(b0, 0, 40)
        b2 == setInt32(b1, 4, width)
        b3 == setInt32(b2, 8, height)
        b4 == setUint16(b3, 12, 1)
        b5 == setUint16(b4, 14, 32)
        b6 == setUint32(b5, 16, 0)
        b7 == setUint32(b6, 20, width * height * 4)
        b8 == setInt32(b7, 24, 2835)
        b9 == setInt32(b8, 28, 2835)
        b10 == setUint32(b9, 32, 0)
    IN setUint32(b10, 36, 0)

\* The nested loops of convertToBGRA, one (y, x) iteration per unfolding.
RECURSIVE BGRALoop(_, _, _, _)
BGRALoop(img, y, x, output) ==
    IF y >= img.height THEN output
    ELSE IF x >= img.width THEN BGRALoop(img, y + 1, 0, output)
    ELSE LET sourceY == img.height - 1 - y
             sourceIndex == (sourceY * img.width + x) * 4
             targetIndex == (y * img.width + x) * 4
         IN BGRALoop(img, y, x + 1,
                [output EXCEPT ![targetIndex + 1] = img.data[sourceIndex + 2 + 1],
                               ![targetIndex + 2] = img.data[sourceIndex + 1 + 1],
                               ![targetIndex + 3] = img.data[sourceIndex + 1],
                               ![targetIndex + 4] = img.data[sourceIndex + 3 + 1]])

\* The same loops without the vertical flip.
RECURSIVE BGRALoopNoFlip(_, _, _, _)
BGRALoopNoFlip(img, y, x, output) ==
    IF y >= img.height THEN output
    ELSE IF x >= img.width THEN BGRALoopNoFlip(img, y + 1, 0, output)
    ELSE LET sourceIndex == (y * img.width + x) * 4
             targetIndex == (y * img.width + x) * 4
         IN BGRALoopNoFlip(img, y, x + 1,
                [output EXCEPT ![targetIndex + 1] = img.data[sourceIndex + 2 + 1],
                               ![targetIndex + 2] = img.data[sourceIndex + 1 + 1],
                               ![targetIndex + 3] = img.data[sourceIndex + 1],
                               ![targetIndex + 4] = img.data[sourceIndex + 3 + 1]])

convertToBGRA_NoFlip(img) ==
    BGRALoopNoFlip(img, 0, 0, Zeros(img.width * img.height * 4))

convertToBGRA(img) ==
    BGRALoop(img, 0, 0, Zeros(img.width * img.height * 4))

\* Lines 139-142 with the info header written at offset 0.
AssembleBmp_InfoAtZero(fh, ih, pd) ==
    LET b0 == Zeros(Len(fh) + Len(ih) + Len(pd))
        b1 == SetAt(b0, fh, 0)
        b2 == SetAt(b1, ih, 0)
    IN SetAt(b2, pd, Len(fh) + Len(ih))

\* Lines 139-142: allocate, then three set() calls.
AssembleBmp(fh, ih, pd) ==
    LET b0 == Zeros(Len(fh) + Len(ih) + Len(pd))
        b1 == SetAt(b0, fh, 0)
        b2 == SetAt(b1, ih, Len(fh))
    IN SetAt(b2, pd, Len(fh) + Len(ih))

---------------------------------------------------------------------------
(* convert.ts: convertPngToBmp *)

TypeIsPng_Image(type) == Includes(type, <<"i", "m", "a", "g", "e">>)

\* file.type.includes('png')
TypeIsPng(type) == Includes(type, StrPng)

\* URL.createObjectURL(obj): a URL that resolves to obj.
createObjectURL(obj) == [blob |-> obj]

\* new Blob([data], { type: 'image/bmp' })
BmpBlob(data) == [type |-> MimeBmp, data |-> data]

\* file.name.replace('.png', '.bmp')
OutputName(name) == Replace(name, StrDotPng, StrDotBmp)

Throw(msg) == [kind |-> "throw", error |-> msg]
Return(v) == [kind |-> "return", value |-> v]

\* The return statement of the finally block (lines 148-153).
FinallyBlock(f) ==
    Return([name |-> OutputName(f.name), url |-> createObjectURL(f)])

\* try { ... } finally { return ... }: a finally block that completes
\* abruptly replaces the completion of the try block, thrown or returned.
TryFinally(tryCompletion, finallyCompletion) ==
    IF finallyCompletion.kind \in {"return", "throw"}
    THEN finallyCompletion
    ELSE tryCompletion

\* ImageData.data returned by getImageData: w*h*4 bytes.
PixelBytes(seed, step, n) == [k \in 1..n |-> (seed + (k - 1) * step) % 256]

\* Pixel contents tried: bytes 1,2,3,... and 10,20,30,...
Patterns == {<<1, 1>>, <<10, 10>>}

FreshImage == [state |-> "none", width |-> 0, height |-> 0]

---------------------------------------------------------------------------
(* Inputs *)

FilePhoto == [name |-> <<"p", "h", "o", "t", "o", ".", "p", "n", "g">>,
              type |-> MimePng]
FileNoExt == [name |-> <<"n", "o", "e", "x", "t">>, type |-> MimePng]
FileTwice == [name |-> <<"a", ".", "p", "n", "g", ".", "p", "n", "g">>,
              type |-> MimePng]
FileJpeg == [name |-> <<"s", "c", "a", "n", ".", "p", "n", "g">>,
             type |-> MimeJpeg]

FileSet == {FilePhoto, FileNoExt, FileTwice, FileJpeg}

\* Non-empty sequences over S of length at most n.
SeqUpTo(S, n) == UNION {[1..k -> S] : k \in 1..n}

---------------------------------------------------------------------------
(* State machine *)

InitProgram ==
    /\ files = <<>>
    /\ convertedFiles = <<>>
    /\ isConverting = FALSE
    /\ progress = <<0, 1>>
    /\ hcPc = "idle"
    /\ runFiles = <<>>
    /\ i = 0
    /\ converted = <<>>
    /\ file = <<>>
    /\ imageUrl = <<>>
    /\ image = FreshImage
    /\ ctx = "none"
    /\ imageData = <<>>
    /\ fileHeader = <<>>
    /\ infoHeader = <<>>
    /\ pixelData = <<>>
    /\ bmpData = <<>>
    /\ ret = <<>>

Init ==
    /\ InitProgram
    /\ hdrIn = <<1, 1>>
    /\ hdrOut = <<>>

\* onDrop runs as an event task: never inside a run's synchronous stretch.
onDrop(acceptedFiles) ==
    /\ hcPc \in {"idle", "loading", "rejected"}
    /\ Len(files) + Len(acceptedFiles) <= MaxFiles
    /\ files' = files \o acceptedFiles
    /\ UNCHANGED <<convertedFiles, isConverting, progress, hcVars, cvVars, hdrVars>>

\* Click on "Convert Files": rendered when files.length > 0, disabled while
\* isConverting. Runs up to the first call of convertPngToBmp.
handleConversion ==
    /\ hcPc = "idle"
    /\ Len(files) > 0
    /\ ~isConverting
    /\ isConverting' = TRUE
    /\ progress' = <<0, 1>>
    /\ converted' = <<>>
    /\ runFiles' = files
    /\ i' = 0
    /\ hcPc' = "call"
    /\ UNCHANGED <<files, convertedFiles, cvVars, hdrVars>>

\* convertPngToBmp(files[i]) up to its first await. A non-PNG type throws
\* before the try block; handleConversion has no catch, so its promise rejects.
convertPngToBmp ==
    /\ hcPc = "call"
    /\ LET f == runFiles[i + 1] IN
        /\ file' = <<f>>
        /\ ctx' = "none"
        /\ imageData' = <<>>
        /\ fileHeader' = <<>>
        /\ infoHeader' = <<>>
        /\ pixelData' = <<>>
        /\ bmpData' = <<>>
        /\ IF ~TypeIsPng(f.type)
           THEN /\ ret' = <<Throw("Only PNG files are supported")>>
                /\ imageUrl' = <<>>
                /\ image' = FreshImage
                /\ hcPc' = "rejected"
           ELSE /\ ret' = <<>>
                /\ imageUrl' = <<createObjectURL(f)>>
                /\ image' = [state |-> "pending", width |-> 0, height |-> 0]
                /\ hcPc' = "loading"
    /\ UNCHANGED <<compVars, runFiles, i, converted, hdrVars>>

\* image.onload: the rest of the try block, then the finally block.
\* getContext('2d') may give null; getImageData throws on a zero width or height.
imageOnload(w, h, pat, ctxOk) ==
    /\ hcPc = "loading"
    /\ image' = [state |-> "loaded", width |-> w, height |-> h]
    /\ ctx' = IF ctxOk THEN "2d" ELSE "null"
    /\ LET f == file[1]
           got == ctxOk /\ w > 0 /\ h > 0
           img == [width |-> w, height |-> h,
                   data |-> PixelBytes(pat[1], pat[2], w * h * 4)]
           fh == createBmpFileHeader(Len(img.data))
           ih == createBmpInfoHeader(w, h)
           pd == convertToBGRA(img)
           bmp == AssembleBmp(fh, ih, pd)
           tryCompletion ==
               IF ~ctxOk THEN Throw("Failed to get canvas context")
               ELSE IF ~got THEN Throw("IndexSizeError")
               ELSE Return([name |-> OutputName(f.name),
                            url |-> createObjectURL(BmpBlob(bmp))])
       IN /\ imageData' = IF got THEN <<img>> ELSE <<>>
          /\ fileHeader' = IF got THEN <<fh>> ELSE <<>>
          /\ infoHeader' = IF got THEN <<ih>> ELSE <<>>
          /\ pixelData' = IF got THEN <<pd>> ELSE <<>>
          /\ bmpData' = IF got THEN <<bmp>> ELSE <<>>
          /\ ret' = <<TryFinally(tryCompletion, FinallyBlock(f))>>
    /\ hcPc' = "returned"
    /\ UNCHANGED <<compVars, runFiles, i, converted, file, imageUrl, hdrVars>>

\* image.onerror: the awaited promise rejects, then the finally block.
imageOnerror ==
    /\ hcPc = "loading"
    /\ image' = [image EXCEPT !.state = "error"]
    /\ ret' = <<TryFinally(Throw("image load error"), FinallyBlock(file[1]))>>
    /\ hcPc' = "returned"
    /\ UNCHANGED <<compVars, runFiles, i, converted, file, imageUrl, ctx, imageData,
                   fileHeader, infoHeader, pixelData, bmpData, hdrVars>>

\* handleConversion after its await: push, setProgress, next iteration.
\* The callee's frame is gone.
handleConversionResume ==
    /\ hcPc = "returned"
    /\ ret[1].kind = "return"
    /\ converted' = Append(converted, ret[1].value)
    /\ progress' = <<(i + 1) * 100, Len(runFiles)>>
    /\ i' = i + 1
    /\ hcPc' = IF i + 1 < Len(runFiles) THEN "call" ELSE "finish"
    /\ file' = <<>>
    /\ imageUrl' = <<>>
    /\ image' = FreshImage
    /\ ctx' = "none"
    /\ imageData' = <<>>
    /\ fileHeader' = <<>>
    /\ infoHeader' = <<>>
    /\ pixelData' = <<>>
    /\ bmpData' = <<>>
    /\ ret' = <<>>
    /\ UNCHANGED <<files, convertedFiles, isConverting, runFiles, hdrVars>>

\* Lines 36-38, then the handler's frame is gone.
handleConversionFinish ==
    /\ hcPc = "finish"
    /\ convertedFiles' = converted
    /\ isConverting' = FALSE
    /\ files' = <<>>
    /\ hcPc' = "idle"
    /\ runFiles' = <<>>
    /\ i' = 0
    /\ converted' = <<>>
    /\ UNCHANGED <<progress, cvVars, hdrVars>>

Next ==
    \/ \E acceptedFiles \in SeqUpTo(FileSet, MaxFiles) : onDrop(acceptedFiles)
    \/ handleConversion
    \/ convertPngToBmp
    \/ \E w \in 0..MaxDim, h \in 0..MaxDim, pat \in Patterns, ctxOk \in BOOLEAN :
          /\ (w = 0 \/ h = 0 \/ ~ctxOk) => pat = <<1, 1>>
          /\ imageOnload(w, h, pat, ctxOk)
    \/ imageOnerror
    \/ handleConversionResume
    \/ handleConversionFinish

Spec == Init /\ [][Next]_vars

---------------------------------------------------------------------------
(* The header builders on their own, over sizes the full model cannot hold *)
(* as pixel arrays.  Sizes stay below 2^31, the largest integer TLC holds. *)

HdrDims == {1, 2, 3, 255, 256, 257, 1000, 4096, 16384, 32767}

HdrSizes == {s \in HdrDims \X HdrDims : s[1] * s[2] < 16384 * 32768}

HdrInit ==
    /\ InitProgram
    /\ hdrIn \in HdrSizes
    /\ hdrOut = <<>>

\* Lines 132-133 and the length computed at line 139, for a w x h image whose
\* pixel array (imageData.data, and convertToBGRA's output) has w*h*4 bytes.
BuildHeaders ==
    /\ hdrOut = <<>>
    /\ LET w == hdrIn[1]
           h == hdrIn[2]
           pixelLen == w * h * 4
           fh == createBmpFileHeader(pixelLen)
           ih == createBmpInfoHeader(w, h)
       IN hdrOut' = <<[fileHeader |-> fh, infoHeader |-> ih,
                       length |-> Len(fh) + Len(ih) + pixelLen]>>
    /\ UNCHANGED <<compVars, hcVars, cvVars, hdrIn>>

HdrNext == BuildHeaders

SpecHdr == HdrInit /\ [][HdrNext]_vars

---------------------------------------------------------------------------
(* Claims *)

\* A call of convertPngToBmp has returned to its caller.
Returned == hcPc = "returned"

\* The decode of the current call succeeded with a non-empty pixel buffer.
DecodedNonEmpty ==
    /\ image.state = "loaded"
    /\ ctx = "2d"
    /\ image.width > 0
    /\ image.height > 0

\* C1: when the decode succeeds with a W x H buffer (W, H > 0), the result
\* returned by convertPngToBmp refers to the assembled BMP bytes, not to the
\* source file.
C1_ReturnsBmpBytes ==
    (Returned /\ DecodedNonEmpty) =>
        /\ ret[1].kind = "return"
        /\ bmpData # <<>>
        /\ ret[1].value.url.blob = BmpBlob(bmpData[1])

\* C2: convertToBGRA returns a buffer of the same length as the source in
\* which the pixel at row y, column x holds the B, G, R, A bytes of the source
\* pixel at row H-1-y, column x.
C2_TranscodeFlipsAndSwaps ==
    pixelData # <<>> =>
        LET W == imageData[1].width
            H == imageData[1].height
            src == imageData[1].data
            out == pixelData[1]
        IN /\ Len(src) = W * H * 4
           /\ Len(out) = Len(src)
           /\ \A y \in 0..(H - 1), x \in 0..(W - 1) :
                LET t == (y * W + x) * 4
                    s == ((H - 1 - y) * W + x) * 4
                IN /\ out[t + 1] = src[s + 3]
                   /\ out[t + 2] = src[s + 2]
                   /\ out[t + 3] = src[s + 1]
                   /\ out[t + 4] = src[s + 4]

\* C2 witness: one column, two rows (the degenerate width), rows 1,2,3,4 and
\* 5,6,7,8 come out as 7,6,5,8 then 3,2,1,4.
C2_Witness ==
    /\ pixelData = << <<7, 6, 5, 8, 3, 2, 1, 4>> >>
    /\ imageData # <<>>
    /\ imageData[1].width = 1
    /\ imageData[1].height = 2
    /\ imageData[1].data = <<1, 2, 3, 4, 5, 6, 7, 8>>

\* C3: the assembled buffer has length 54 + W*H*4: the 14 header bytes at
\* offset 0, the 40 info-header bytes at offset 14, the transcoded pixels at
\* offset 54, nothing between them and nothing after.
C3_AssembledLayout ==
    bmpData # <<>> =>
        LET b == bmpData[1]
            W == imageData[1].width
            H == imageData[1].height
        IN /\ Len(b) = 54 + W * H * 4
           /\ Len(fileHeader[1]) = 14
           /\ Len(infoHeader[1]) = 40
           /\ SubSeq(b, 1, 14) = fileHeader[1]
           /\ SubSeq(b, 15, 54) = infoHeader[1]
           /\ SubSeq(b, 55, Len(b)) = pixelData[1]

\* C3 witness: a 2 x 1 image assembled into 62 bytes.
C3_Witness ==
    /\ bmpData # <<>>
    /\ imageData[1].width = 2
    /\ imageData[1].height = 1
    /\ Len(bmpData[1]) = 62

\* C4: the little-endian uint32 at file-header bytes 2..6 equals the total
\* length of the assembled buffer, and equals 54 plus the little-endian uint32
\* image-size field at info-header offset 20, which is width*height*4.
C4_FileSizeField ==
    hdrOut # <<>> =>
        LET fh == hdrOut[1].fileHeader
            ih == hdrOut[1].infoHeader
        IN /\ getUint32(fh, 2) = hdrOut[1].length
           /\ getUint32(fh, 2) = 54 + getUint32(ih, 20)
           /\ getUint32(ih, 20) = hdrIn[1] * hdrIn[2] * 4

\* C4 witness: 256 x 257, a size whose field spans three bytes.
C4_Witness ==
    /\ hdrOut # <<>>
    /\ hdrIn = <<256, 257>>
    /\ SubSeq(hdrOut[1].fileHeader, 3, 6) = <<54, 4, 4, 0>>

\* C5: for a file whose type does not contain "png", convertPngToBmp fails
\* with the unsupported-format error and the decode (object URL, image load,
\* canvas read) is never started.
C5_NonPngRejectedBeforeDecode ==
    (file # <<>> /\ ~Includes(file[1].type, StrPng)) =>
        /\ ret # <<>>
        /\ ret[1].kind = "throw"
        /\ ret[1].error = "Only PNG files are supported"
        /\ imageUrl = <<>>
        /\ image.state = "none"
        /\ ctx = "none"
        /\ imageData = <<>>

\* C5 witness: the call on the image/jpeg file has thrown.
C5_Witness ==
    /\ file = <<FileJpeg>>
    /\ hcPc = "rejected"
    /\ ret # <<>>

\* C6: if the decode fails (the image load rejects, or there is no canvas
\* context), convertPngToBmp ends in a failure and returns no {name, url}.
C6_DecodeFailureSurfaces ==
    (Returned /\ (image.state = "error" \/ ctx = "null")) =>
        ret[1].kind = "throw"

\* The name the claim describes: a trailing ".png" becomes ".bmp", and a name
\* without that suffix gets ".bmp" appended.
TrailingName(name) ==
    IF Len(name) >= 4 /\ SubSeq(name, Len(name) - 3, Len(name)) = StrDotPng
    THEN SubSeq(name, 1, Len(name) - 4) \o StrDotBmp
    ELSE name \o StrDotBmp

\* C7: the output name replaces a trailing ".png" by ".bmp", appends ".bmp"
\* when there is no such suffix, and leaves an earlier ".png" alone.
C7_OutputNameTrailing ==
    (Returned /\ ret[1].kind = "return") =>
        ret[1].value.name = TrailingName(file[1].name)

\* A step on which a run of handleConversion ends, normally or by rejection.
RunEnds ==
    /\ hcPc \in {"call", "loading", "returned", "finish"}
    /\ hcPc' \in {"idle", "rejected"}

\* C8: a batch ends with a result list holding one entry per input file, in
\* input order; a failing file does not abort the files after it.
C8_OneEntryPerFile ==
    [][RunEnds =>
        /\ Len(convertedFiles') = Len(runFiles)
        /\ \A k \in 1..Len(runFiles) :
              convertedFiles'[k].name = OutputName(runFiles[k].name)]_vars

\* C9: a decoded buffer with width 0 or height 0 yields a failure and neither
\* header builder nor convertToBGRA runs for it.
C9_ZeroDimensionsRejected ==
    (Returned /\ image.state = "loaded" /\ ctx = "2d"
        /\ (image.width = 0 \/ image.height = 0)) =>
        /\ ret[1].kind = "throw"
        /\ fileHeader = <<>>
        /\ infoHeader = <<>>
        /\ pixelData = <<>>

\* C10: every run of handleConversion that set isConverting ends with it
\* false again, also when a convertPngToBmp call throws, and the final
\* setFiles([]) discards no file that the run did not convert.
C10_RunRestoresState ==
    [][/\ RunEnds => ~isConverting'
       /\ (hcPc = "finish" /\ hcPc' = "idle") => files = runFiles]_vars

===========================================================================
